---- MODULE Spec2Model ----
(***************************************************************************)
(* A model of src/parking/__main__.py: the Game object (board, cars), its  *)
(* scanner find_cars, the move helpers _move_up and _move_down, and the    *)
(* public move stub.  Python's list indexing is kept: an index i of a list *)
(* of n elements is legal when -n <= i < n, a negative index counts from   *)
(* the end, and any other index raises IndexError at the access.           *)
(***************************************************************************)
EXTENDS Integers, Sequences, FiniteSets, TLC

VARIABLES
    board_dimension,  \* Game.board_dimension
    board,            \* Game.board: row |-> column |-> marker, rows and columns from 0
    cars,             \* Game.cars: the sequence of Car records of the last find_cars
    outcome,          \* how the last call ended: "ok" or "IndexError" (uncaught)
    last,             \* the last call: its name, car_num/car_idx and direction
    scans,            \* how many find_cars calls ended the run so far, in a row
    again,            \* the last call was a helper call repeating the call just before it
    moves,            \* how many _move_up and _move_down calls were made
    budget,           \* how many _move_up and _move_down calls the run may make
    board0            \* the board the Game was constructed on

vars == <<board_dimension, board, cars, outcome, last, scans, again, moves, budget, board0>>

(***************************************************************************)
(* Bounds of the model.                                                    *)
(***************************************************************************)
\* most _move_up and _move_down calls of one run on ESTADO_INICIAL
MaxMoves == 5
\* most _move_up and _move_down calls of one run on another board
GridMoves == 2
\* the count of find_cars calls in a row stops here
MaxScans == 2
\* side of the boards the general-board specification starts from
GridDim == 3
\* most occupied cells of such a starting board
MaxCells == 2
\* side of the boards the scanner specification scans
ScanDim == 3
\* most occupied cells of a scanned board
ScanCells == 3

(***************************************************************************)
(* Markers and the two module-level boards.                                *)
(***************************************************************************)
EMPTY == "0"

Markers == {"h", "v"}

\* A Python list of rows (1-based tuples here) as a 0-based board.
FromRows(rows) ==
    [r \in 0..(Len(rows) - 1) |-> [c \in 0..(Len(rows[r + 1]) - 1) |-> rows[r + 1][c + 1]]]

ESTADO_INICIAL ==
    LET o == EMPTY
        h == "h"
        v == "v"
    IN FromRows(<< <<o, o, o, o, o>>,
                   <<o, o, v, o, o>>,
                   <<o, o, v, o, o>>,
                   <<o, o, o, o, o>>,
                   <<o, o, o, h, h>> >>)

\* the target one row too low
ESTADO_OBJETIVO_Row3 ==
    LET o == EMPTY
        h == "h"
    IN FromRows(<< <<o, o, o, o, o>>,
                   <<o, o, o, o, o>>,
                   <<o, o, o, o, o>>,
                   <<o, o, o, h, h>>,
                   <<o, o, o, o, o>> >>)

ESTADO_OBJETIVO ==
    LET o == EMPTY
        h == "h"
    IN FromRows(<< <<o, o, o, o, o>>,
                   <<o, o, o, o, o>>,
                   <<o, o, o, h, h>>,
                   <<o, o, o, o, o>>,
                   <<o, o, o, o, o>> >>)

\* Game.__init__'s default board_dimension
DefaultDim == 5

(***************************************************************************)
(* Python list indexing.                                                   *)
(***************************************************************************)
NumRows(b) == Cardinality(DOMAIN b)

NumCols(b, r) == Cardinality(DOMAIN b[r])

PyIndexOk(i, n) == (0 - n) <= i /\ i < n

PyIndex(i, n) == IF i < 0 THEN i + n ELSE i

(***************************************************************************)
(* Car.                                                                    *)
(***************************************************************************)
\* the length as the plain difference of the coordinates
calculate_length_no_plus_one(start_pos, end_pos, orientation) ==
    IF orientation = "horizontal"
    THEN end_pos[2] - start_pos[2]
    ELSE end_pos[1] - start_pos[1]

calculate_length(start_pos, end_pos, orientation) ==
    IF orientation = "horizontal"
    THEN end_pos[2] - start_pos[2] + 1
    ELSE end_pos[1] - start_pos[1] + 1

Car(start_pos, end_pos, orientation) ==
    [start_pos |-> start_pos, end_pos |-> end_pos, orientation |-> orientation,
     length |-> calculate_length(start_pos, end_pos, orientation)]

(***************************************************************************)
(* Game.find_cars.                                                         *)
(***************************************************************************)
SetMin(S) == CHOOSE x \in S : \A y \in S : x <= y

SetMax(S) == CHOOSE x \in S : \A y \in S : x >= y

\* line 132: the orientation of a group is read from its first cell's marker
OrientationOf(car_type) == IF car_type = "h" THEN "horizontal" ELSE "vertical"

\* a flood fill over all four neighbours, whatever the orientation
NeighboursAllFour(orientation, curr_r, curr_c) ==
    << <<curr_r, curr_c + 1>>, <<curr_r, curr_c - 1>>,
       <<curr_r + 1, curr_c>>, <<curr_r - 1, curr_c>> >>

\* lines 162-167: the cells pushed after visiting (curr_r, curr_c), in push order
Neighbours(orientation, curr_r, curr_c) ==
    IF orientation = "horizontal"
    THEN << <<curr_r, curr_c + 1>>, <<curr_r, curr_c - 1>> >>
    ELSE << <<curr_r + 1, curr_c>>, <<curr_r - 1, curr_c>> >>

\* lines 140-167: the stack loop; the result is the visited set and the parts found
RECURSIVE DFS(_, _, _, _, _, _)
DFS(b, dim, car_type, stack, visited, car_parts) ==
    IF stack = <<>>
    THEN [visited |-> visited, car_parts |-> car_parts]
    ELSE LET top == stack[Len(stack)]
             rest == SubSeq(stack, 1, Len(stack) - 1)
             curr_r == top[1]
             curr_c == top[2]
             is_valid_row == 0 <= curr_r /\ curr_r < dim
             is_valid_col == 0 <= curr_c /\ curr_c < dim
         IN IF ~(is_valid_row /\ is_valid_col)
            THEN DFS(b, dim, car_type, rest, visited, car_parts)
            ELSE IF <<curr_r, curr_c>> \in visited \/ b[curr_r][curr_c] # car_type
            THEN DFS(b, dim, car_type, rest, visited, car_parts)
            ELSE DFS(b, dim, car_type,
                     rest \o Neighbours(OrientationOf(car_type), curr_r, curr_c),
                     visited \cup {<<curr_r, curr_c>>},
                     Append(car_parts, <<curr_r, curr_c>>))

\* the Car of a group with end_pos taken from the smallest column
CarOfPartsMinCol(car_parts, orientation) ==
    LET ps == {car_parts[i] : i \in 1..Len(car_parts)}
        start_pos == <<SetMin({p[1] : p \in ps}), SetMin({p[2] : p \in ps})>>
        end_pos == <<SetMax({p[1] : p \in ps}), SetMin({p[2] : p \in ps})>>
    IN Car(start_pos, end_pos, orientation)

\* lines 170-182: the Car of a group of parts
CarOfParts(car_parts, orientation) ==
    LET ps == {car_parts[i] : i \in 1..Len(car_parts)}
        start_pos == <<SetMin({p[1] : p \in ps}), SetMin({p[2] : p \in ps})>>
        end_pos == <<SetMax({p[1] : p \in ps}), SetMax({p[2] : p \in ps})>>
    IN Car(start_pos, end_pos, orientation)

\* lines 126-182: the row-major loop over the cells, from cell number k on
RECURSIVE ScanFrom(_, _, _, _, _)
ScanFrom(b, dim, k, visited, found) ==
    IF k >= dim * dim
    THEN found
    ELSE LET r == k \div dim
             c == k % dim
         IN IF b[r][c] # EMPTY /\ <<r, c>> \notin visited
            THEN LET car_type == b[r][c]
                     res == DFS(b, dim, car_type, << <<r, c>> >>, visited, <<>>)
                 IN ScanFrom(b, dim, k + 1, res.visited,
                             IF res.car_parts # <<>>
                             THEN Append(found, CarOfParts(res.car_parts, OrientationOf(car_type)))
                             ELSE found)
            ELSE ScanFrom(b, dim, k + 1, visited, found)

\* find_cars appending to the list it already holds
KeepCars(old) == old

\* line 118: self.cars = []
ResetCars(old) == <<>>

\* find_cars putting each new Car at the front of the list
find_cars_prepending(b, dim, old) ==
    LET cs == ScanFrom(b, dim, 0, {}, ResetCars(old))
    IN [i \in 1..Len(cs) |-> cs[Len(cs) + 1 - i]]

find_cars(b, dim, old) == ScanFrom(b, dim, 0, {}, ResetCars(old))

(***************************************************************************)
(* Writes to the board.  A helper's assignments are a sequence of          *)
(* <<row, column, marker>>, executed in order; the first one whose row or  *)
(* column index is illegal raises IndexError and the ones before it stay.  *)
(***************************************************************************)
RECURSIVE ApplyWrites(_, _)
ApplyWrites(b, ws) ==
    IF ws = <<>>
    THEN [board |-> b, outcome |-> "ok"]
    ELSE LET w == Head(ws)
             nr == NumRows(b)
         IN IF ~PyIndexOk(w[1], nr)
            THEN [board |-> b, outcome |-> "IndexError"]
            ELSE LET r == PyIndex(w[1], nr)
                     nc == NumCols(b, r)
                 IN IF ~PyIndexOk(w[2], nc)
                    THEN [board |-> b, outcome |-> "IndexError"]
                    ELSE ApplyWrites([b EXCEPT ![r][PyIndex(w[2], nc)] = w[3]], Tail(ws))

\* lines 186, 207: "v" if car.orientation == "vertical" else "h"
MarkerOf(car) == IF car.orientation = "vertical" THEN "v" ELSE "h"

\* the horizontal branch of both helpers: for j in range(start_j, end_j + 1), clear
\* (from_i, j) and then mark (to_i, j)
RowWrites(from_i, to_i, start_j, end_j, marker) ==
    [k \in 1..(2 * (end_j - start_j + 1)) |->
        LET j == start_j + ((k - 1) \div 2)
        IN IF k % 2 = 1 THEN <<from_i, j, EMPTY>> ELSE <<to_i, j, marker>>]

\* the vertical branch of both helpers: clear (i, j) for i in range(start_i, end_i + 1),
\* and then mark (i + delta, j) for i in the same range
ColumnWrites(start_i, end_i, j, delta, marker) ==
    LET n == end_i - start_i + 1
    IN [k \in 1..(2 * n) |->
           IF k <= n
           THEN <<start_i + k - 1, j, EMPTY>>
           ELSE <<start_i + (k - n) - 1 + delta, j, marker>>]

\* _move_up with the roles of row and column swapped in its horizontal branch
MoveUpWritesSideways(car) ==
    LET orientation == MarkerOf(car)
    IN IF orientation = "h"
       THEN [k \in 1..(2 * (car.end_pos[2] - car.start_pos[2] + 1)) |->
                LET j == car.start_pos[2] + ((k - 1) \div 2)
                IN IF k % 2 = 1
                   THEN <<car.start_pos[1], j, EMPTY>>
                   ELSE <<car.start_pos[1], j - 1, orientation>>]
       ELSE ColumnWrites(car.start_pos[1], car.end_pos[1], car.start_pos[2], -1, orientation)

\* lines 188-203: the assignments of _move_up for a car
MoveUpWrites(car) ==
    LET orientation == MarkerOf(car)
    IN IF orientation = "h"
       THEN LET i == car.start_pos[1]
            IN RowWrites(i, i - 1, car.start_pos[2], car.end_pos[2], orientation)
       ELSE ColumnWrites(car.start_pos[1], car.end_pos[1], car.start_pos[2], -1, orientation)

\* _move_down leaving a horizontal car where it is
MoveDownWritesVerticalOnly(car) ==
    IF MarkerOf(car) = "h"
    THEN <<>>
    ELSE ColumnWrites(car.start_pos[1], car.end_pos[1], car.start_pos[2], 1, MarkerOf(car))

\* lines 210-225: the assignments of _move_down for a car
MoveDownWrites(car) ==
    LET orientation == MarkerOf(car)
    IN IF orientation = "h"
       THEN LET start_i == car.start_pos[1]
                end_i == start_i + 1
            IN RowWrites(start_i, end_i, car.start_pos[2], car.end_pos[2], orientation)
       ELSE ColumnWrites(car.start_pos[1], car.end_pos[1], car.start_pos[2], 1, orientation)

\* lines 185, 206: car = self.cars[car_num - 1]
CarLookupOk(cs, car_num) == PyIndexOk(car_num - 1, Len(cs))

CarLookup(cs, car_num) == cs[PyIndex(car_num - 1, Len(cs)) + 1]

\* _move_up writing, above each cell of the car, the marker it reads in that cell
move_up_copying(b, cs, car_num) ==
    IF ~CarLookupOk(cs, car_num)
    THEN [board |-> b, outcome |-> "IndexError"]
    ELSE LET ws == MoveUpWrites(CarLookup(cs, car_num))
         IN ApplyWrites(b, [k \in DOMAIN ws |->
                IF ws[k][3] = EMPTY
                THEN ws[k]
                ELSE <<ws[k][1], ws[k][2], b[ws[k][1] + 1][ws[k][2]]>>])

move_up(b, cs, car_num) ==
    IF ~CarLookupOk(cs, car_num)
    THEN [board |-> b, outcome |-> "IndexError"]
    ELSE ApplyWrites(b, MoveUpWrites(CarLookup(cs, car_num)))

move_down(b, cs, car_num) ==
    IF ~CarLookupOk(cs, car_num)
    THEN [board |-> b, outcome |-> "IndexError"]
    ELSE ApplyWrites(b, MoveDownWrites(CarLookup(cs, car_num)))

(***************************************************************************)
(* isSolved.  The repository has no such operation; this is the one the    *)
(* specification describes, over the module's ESTADO_OBJETIVO: every       *)
(* occupied cell of the target carries the target's marker.                *)
(***************************************************************************)
isSolved(b) ==
    \A r \in DOMAIN ESTADO_OBJETIVO : \A c \in DOMAIN ESTADO_OBJETIVO[r] :
        ESTADO_OBJETIVO[r][c] # EMPTY => b[r][c] = ESTADO_OBJETIVO[r][c]

(***************************************************************************)
(* The state machine: one action per call on the Game.  An uncaught        *)
(* IndexError ends the program, so no call follows one.                    *)
(***************************************************************************)
Directions == {"up", "down", "left", "right"}

\* the car numbers a caller tries: every car, one below the first, one above the last
CarNums(cs) == 0..(Len(cs) + 1)

\* the car indices move is tried with: the 1-based numbers of the cars
CarIdxs(cs) == 1..Len(cs)

Call(op, n, d) == [op |-> op, car_num |-> n, direction |-> d]

\* the boards of side dim with at most n occupied cells
Cells(dim) == (0..(dim - 1)) \X (0..(dim - 1))

BoardOf(dim, f) ==
    [r \in 0..(dim - 1) |-> [c \in 0..(dim - 1) |->
        IF <<r, c>> \in DOMAIN f THEN f[<<r, c>>] ELSE EMPTY]]

Grids(dim, n) ==
    {BoardOf(dim, f) :
        f \in UNION {[occ -> Markers] : occ \in {s \in SUBSET Cells(dim) : Cardinality(s) <= n}}}

\* the state after Game.__init__ (lines 61-65) on board b of side dim
Constructed(dim, b, n) ==
    /\ board_dimension = dim
    /\ board = b
    /\ cars = <<>>
    /\ outcome = "ok"
    /\ last = Call("init", 0, "none")
    /\ scans = 0
    /\ again = FALSE
    /\ moves = 0
    /\ budget = n
    /\ board0 = b

\* Game() as the module writes it: board_dimension=5 on ESTADO_INICIAL
Init == Constructed(DefaultDim, ESTADO_INICIAL, MaxMoves)

\* a Game on any small board in the place of ESTADO_INICIAL
InitGrid == \E b \in Grids(GridDim, MaxCells) : Constructed(GridDim, b, GridMoves)

\* a Game on any board the scanner is tried on
InitScan == \E b \in Grids(ScanDim, ScanCells) : Constructed(ScanDim, b, 0)

FindCars ==
    /\ outcome = "ok"
    /\ cars' = find_cars(board, board_dimension, cars)
    /\ last' = Call("find_cars", 0, "none")
    /\ scans' = IF scans < MaxScans THEN scans + 1 ELSE scans
    /\ again' = FALSE
    /\ UNCHANGED <<board_dimension, board, outcome, moves, budget, board0>>

\* _move_up followed by an implicit rescan of the board it wrote
MoveUpRescans(car_num) ==
    /\ outcome = "ok"
    /\ moves < budget
    /\ LET res == move_up(board, cars, car_num)
       IN /\ board' = res.board
          /\ outcome' = res.outcome
          /\ cars' = find_cars(res.board, board_dimension, cars)
    /\ last' = Call("up", car_num, "up")
    /\ scans' = 0
    /\ again' = (last = Call("up", car_num, "up"))
    /\ moves' = moves + 1
    /\ UNCHANGED <<board_dimension, budget, board0>>

MoveUp(car_num) ==
    /\ outcome = "ok"
    /\ moves < budget
    /\ LET res == move_up(board, cars, car_num)
       IN /\ board' = res.board
          /\ outcome' = res.outcome
    /\ last' = Call("up", car_num, "up")
    /\ scans' = 0
    /\ again' = (last = Call("up", car_num, "up"))
    /\ moves' = moves + 1
    /\ UNCHANGED <<board_dimension, cars, budget, board0>>

MoveDown(car_num) ==
    /\ outcome = "ok"
    /\ moves < budget
    /\ LET res == move_down(board, cars, car_num)
       IN /\ board' = res.board
          /\ outcome' = res.outcome
    /\ last' = Call("down", car_num, "down")
    /\ scans' = 0
    /\ again' = (last = Call("down", car_num, "down"))
    /\ moves' = moves + 1
    /\ UNCHANGED <<board_dimension, cars, budget, board0>>

\* Game.move (lines 227-228): pass
Move(car_idx, direction) ==
    /\ outcome = "ok"
    /\ last' = Call("move", car_idx, direction)
    /\ scans' = 0
    /\ again' = FALSE
    /\ UNCHANGED <<board_dimension, board, cars, outcome, moves, budget, board0>>

Next ==
    \/ FindCars
    \/ \E car_num \in CarNums(cars) : MoveUp(car_num)
    \/ \E car_num \in CarNums(cars) : MoveDown(car_num)
    \/ \E car_idx \in CarIdxs(cars), direction \in Directions : Move(car_idx, direction)

Spec == Init /\ [][Next]_vars

SpecGrid == InitGrid /\ [][Next]_vars

NextScan == FindCars

SpecScan == InitScan /\ [][NextScan]_vars

\* Game() once more in the same program (line 64: self.board = ESTADO_INICIAL).
\* The assignment copies nothing: the new Game's board is the module's list
\* object itself, the one every earlier Game wrote its moves into, so the
\* board the new Game starts on is that list as it is now.
NewGame ==
    /\ outcome = "ok"
    /\ board_dimension' = DefaultDim
    /\ board' = board
    /\ cars' = <<>>
    /\ last' = Call("Game", 0, "none")
    /\ scans' = 0
    /\ again' = FALSE
    /\ UNCHANGED <<outcome, moves, budget, board0>>

NextGames ==
    \/ Next
    \/ NewGame

\* a program that constructs Games one after another and calls them
SpecGames == Init /\ [][NextGames]_vars

(***************************************************************************)
(* Vocabulary of the properties.                                           *)
(***************************************************************************)
\* the cells of a Car's start..end span
Span(car) ==
    {<<r, c>> : r \in car.start_pos[1]..car.end_pos[1], c \in car.start_pos[2]..car.end_pos[2]}

NonEmptyCells(b, dim) == {p \in Cells(dim) : b[p[1]][p[2]] # EMPTY}

CarSet(cs) == {cs[i] : i \in 1..Len(cs)}

\* the Car collection is the one a scan of the current board gives
Fresh == cars = find_cars(board, board_dimension, <<>>)

SpansDisjoint(cs) ==
    \A i, j \in 1..Len(cs) : i # j => Span(cs[i]) \cap Span(cs[j]) = {}

SpansCover(cs, b, dim) == UNION {Span(cs[i]) : i \in 1..Len(cs)} = NonEmptyCells(b, dim)

Delta(direction) ==
    CASE direction = "up" -> <<-1, 0>>
      [] direction = "down" -> <<1, 0>>
      [] direction = "left" -> <<0, -1>>
      [] direction = "right" -> <<0, 1>>

Aligned(car, direction) ==
    IF car.orientation = "horizontal"
    THEN direction \in {"left", "right"}
    ELSE direction \in {"up", "down"}

\* the footprint of a car shifted one cell in a direction
Dest(car, direction) ==
    {<<p[1] + Delta(direction)[1], p[2] + Delta(direction)[2]>> : p \in Span(car)}

DestInBounds(car, direction, dim) == Dest(car, direction) \subseteq Cells(dim)

DestFree(b, car, direction) ==
    \A p \in Dest(car, direction) \ Span(car) : b[p[1]][p[2]] = EMPTY

\* board b with the car's footprint cleared and its marker written one cell further
Shifted(b, car, direction, dim) ==
    [r \in 0..(dim - 1) |-> [c \in 0..(dim - 1) |->
        IF <<r, c>> \in Dest(car, direction) THEN MarkerOf(car)
        ELSE IF <<r, c>> \in Span(car) THEN EMPTY
        ELSE b[r][c]]]

\* the step just taken is a call of _move_up or _move_down on an existing car,
\* made with a fresh Car collection
FreshHelperStep ==
    /\ last'.op \in {"up", "down"}
    /\ Fresh
    /\ last'.car_num \in 1..Len(cars)

(***************************************************************************)
(* C1.  As claimed: after any sequence of successful move calls the        *)
(* start..end spans of the cars are pairwise disjoint and their union is   *)
(* exactly the set of non-empty cells.                                     *)
(***************************************************************************)
C1_SpansMatchAfterMoves ==
    (last.op \in {"up", "down"} /\ outcome = "ok" /\ last.car_num \in 1..Len(cars))
        => (SpansDisjoint(cars) /\ SpansCover(cars, board, board_dimension))

\* C1, amended: after any sequence of completed moves, once find_cars has been
\* called, the cars' spans are pairwise disjoint and their union is exactly the
\* set of non-empty cells of the board.
C1_SpansMatchAfterRefresh ==
    (last.op = "find_cars" /\ outcome = "ok")
        => (SpansDisjoint(cars) /\ SpansCover(cars, board, board_dimension))

\* a rescan after two completed moves that changed the board
C1_Witness ==
    /\ last.op = "find_cars"
    /\ moves >= 2
    /\ board # board0
    /\ Len(cars) >= 2

(***************************************************************************)
(* C2.  As claimed: a move whose destination leaves the board is rejected  *)
(* and leaves the grid unchanged: a car whose start row is 0 cannot move   *)
(* up, a car whose end row is N-1 cannot move down.  Stated for a car     *)
(* moved along its own axis with a fresh Car collection.                   *)
(***************************************************************************)
C2_OutOfBoundsRejected ==
    [][(/\ FreshHelperStep
        /\ Aligned(cars[last'.car_num], last'.direction)
        /\ ~DestInBounds(cars[last'.car_num], last'.direction, board_dimension))
          => (board' = board /\ outcome' # "ok")]_vars

(***************************************************************************)
(* C3.  As claimed: a move whose destination holds a cell of another car   *)
(* is rejected and leaves the grid unchanged, so no move overwrites a cell *)
(* of another car.  Stated for a car moved along its own axis, inside the  *)
(* board, with a fresh Car collection.                                     *)
(***************************************************************************)
C3_BlockedRejected ==
    [][(/\ FreshHelperStep
        /\ Aligned(cars[last'.car_num], last'.direction)
        /\ DestInBounds(cars[last'.car_num], last'.direction, board_dimension)
        /\ ~DestFree(board, cars[last'.car_num], last'.direction))
          => (board' = board /\ outcome' # "ok")]_vars

HRuns(b, dim) ==
    {<<r, c1, c2>> \in (0..(dim - 1)) \X (0..(dim - 1)) \X (0..(dim - 1)) :
        /\ c1 <= c2
        /\ \A c \in c1..c2 : b[r][c] = "h"
        /\ (c1 = 0 \/ b[r][c1 - 1] # "h")
        /\ (c2 = dim - 1 \/ b[r][c2 + 1] # "h")}

VRuns(b, dim) ==
    {<<c, r1, r2>> \in (0..(dim - 1)) \X (0..(dim - 1)) \X (0..(dim - 1)) :
        /\ r1 <= r2
        /\ \A r \in r1..r2 : b[r][c] = "v"
        /\ (r1 = 0 \/ b[r1 - 1][c] # "v")
        /\ (r2 = dim - 1 \/ b[r2 + 1][c] # "v")}

\* the Car the claim expects for each span: its extreme cells, its marker's
\* orientation and its cell count
ExpectedCars(b, dim) ==
    {[start_pos |-> <<s[1], s[2]>>, end_pos |-> <<s[1], s[3]>>,
      orientation |-> "horizontal", length |-> s[3] - s[2] + 1] : s \in HRuns(b, dim)}
    \cup
    {[start_pos |-> <<s[2], s[1]>>, end_pos |-> <<s[3], s[1]>>,
      orientation |-> "vertical", length |-> s[3] - s[2] + 1] : s \in VRuns(b, dim)}

\* C5: on every board, find_cars returns exactly one Car per span, with the
\* span's extreme cells as start and end, the orientation of the span's marker
\* and the span's cell count as length.
C5_OneCarPerSpan ==
    (last.op = "find_cars")
        => /\ CarSet(cars) = ExpectedCars(board, board_dimension)
           /\ Len(cars) = Cardinality(ExpectedCars(board, board_dimension))

\* a scanned board with two spans of 'h' that touch across their axis, one of them
\* of two cells
C5_Witness ==
    /\ last.op = "find_cars"
    /\ \E i, j \in 1..Len(cars) :
          /\ cars[i].orientation = "horizontal"
          /\ cars[j].orientation = "horizontal"
          /\ cars[i].length = 2
          /\ cars[j].start_pos[1] = cars[i].start_pos[1] + 1
          /\ cars[j].start_pos[2] \in cars[i].start_pos[2]..cars[i].end_pos[2]

(***************************************************************************)
(* C6.  As claimed: a successful move in any of the four directions (the   *)
(* car exists, the direction is along its axis, the destination is inside  *)
(* the board and free) clears the car's old footprint and writes its       *)
(* marker into the shifted footprint, all other cells unchanged.  Up and   *)
(* down are requested from _move_up and _move_down, left and right from    *)
(* move; the distance is one.                                              *)
(***************************************************************************)
C6_MoveShiftsFootprint ==
    [][(/\ \/ last'.op \in {"up", "down"}
           \/ last'.op = "move" /\ last'.direction \in {"left", "right"}
        /\ Fresh
        /\ last'.car_num \in 1..Len(cars)
        /\ Aligned(cars[last'.car_num], last'.direction)
        /\ DestInBounds(cars[last'.car_num], last'.direction, board_dimension)
        /\ DestFree(board, cars[last'.car_num], last'.direction))
          => board' = Shifted(board, cars[last'.car_num], last'.direction, board_dimension)]_vars

(***************************************************************************)
(* C7.  isSolved is true exactly when cells (2,3) and (2,4) both carry     *)
(* 'h'; it is false on the initial board and on the board with H at        *)
(* (4,0)-(4,1), and true on any board whose cells (2,3) and (2,4) are 'h'. *)
(***************************************************************************)
BoardWithHLeft ==
    [ESTADO_INICIAL EXCEPT ![4] = [c \in 0..4 |-> IF c \in {0, 1} THEN "h" ELSE EMPTY]]

C8_InitialScan ==
    (last.op = "find_cars" /\ board = ESTADO_INICIAL)
        => cars = << [start_pos |-> <<1, 2>>, end_pos |-> <<2, 2>>,
                      orientation |-> "vertical", length |-> 2],
                     [start_pos |-> <<4, 3>>, end_pos |-> <<4, 4>>,
                      orientation |-> "horizontal", length |-> 2] >>

\* find_cars was just called on the untouched initial board
C8_Witness ==
    /\ last.op = "find_cars"
    /\ board = ESTADO_INICIAL
    /\ moves = 0
    /\ Len(cars) = 2

(***************************************************************************)
(* C9.  A find_cars call that follows a find_cars call changes neither the *)
(* Car collection (number, order, start, end, orientation, length) nor the *)
(* board.                                                                  *)
(***************************************************************************)
C9_RefreshIdempotent ==
    [][(last.op = "find_cars" /\ last'.op = "find_cars")
          => (cars' = cars /\ board' = board)]_vars

\* find_cars was called twice in a row on a board with at least two cars
C9_Witness ==
    /\ scans = 2
    /\ last.op = "find_cars"
    /\ Len(cars) >= 2

(***************************************************************************)
(* C10.  As claimed: _move_up or _move_down with a car number outside      *)
(* 1..len(cars), below the first car as well as above the last, is         *)
(* rejected at once and does not change the board.                         *)
(***************************************************************************)
C10_BadIndexRejected ==
    [][(/\ last'.op \in {"up", "down"}
        /\ last'.car_num \notin 1..Len(cars))
          => (board' = board /\ outcome' = "IndexError")]_vars

(***************************************************************************)
(* C11.  As claimed: each Game owns its grid, so a move on one Game never  *)
(* changes ESTADO_INICIAL, and a Game constructed after any sequence of    *)
(* moves on an earlier Game starts from the original initial board.        *)
(***************************************************************************)
C11_NewGameStartsFromInitialBoard ==
    (last.op = "Game") => board = ESTADO_INICIAL

(***************************************************************************)
(* C12.  A move changes nothing but the grid: _move_up, _move_down and     *)
(* move leave the Car collection exactly as it was (no implicit rescan),   *)
(* and the collection changes only in a find_cars call.                    *)
(***************************************************************************)
C12_OnlyFindCarsChangesCars ==
    [][/\ (last'.op \in {"up", "down", "move"}) => cars' = cars
       /\ (cars' # cars) => last'.op = "find_cars"]_vars

\* a completed move of an existing car has changed the board, and the Car
\* collection is still the one of before the move
C12_Witness ==
    /\ last.op \in {"up", "down"}
    /\ outcome = "ok"
    /\ last.car_num \in 1..Len(cars)
    /\ board # board0
    /\ moves = 1
    /\ cars = find_cars(board0, board_dimension, <<>>)
    /\ ~Fresh

(***************************************************************************)
(* C13.  Components of a board.  Two occupied cells are linked when they   *)
(* carry the same marker and are neighbours: any of the four neighbours    *)
(* (4-connectivity), or only the neighbours along the marker's axis (left  *)
(* and right for 'h', up and down for 'v').                                *)
(***************************************************************************)
Linked(b, p, q, axisOnly) ==
    /\ b[p[1]][p[2]] = b[q[1]][q[2]]
    /\ \/ p[1] = q[1] /\ (p[2] - q[2]) \in {-1, 1} /\ (axisOnly => b[p[1]][p[2]] = "h")
       \/ p[2] = q[2] /\ (p[1] - q[1]) \in {-1, 1} /\ (axisOnly => b[p[1]][p[2]] = "v")

RECURSIVE Closure(_, _, _, _)
Closure(b, dim, S, axisOnly) ==
    LET more == S \cup {q \in NonEmptyCells(b, dim) : \E p \in S : Linked(b, p, q, axisOnly)}
    IN IF more = S THEN S ELSE Closure(b, dim, more, axisOnly)

Components(b, dim, axisOnly) ==
    {Closure(b, dim, {p}, axisOnly) : p \in NonEmptyCells(b, dim)}

\* start = (min row, min col) and end = (max row, max col) of a set of cells
Extremes(S) ==
    [start_pos |-> <<SetMin({p[1] : p \in S}), SetMin({p[2] : p \in S})>>,
     end_pos |-> <<SetMax({p[1] : p \in S}), SetMax({p[2] : p \in S})>>]

CarExtremes(cs) == {[start_pos |-> cs[i].start_pos, end_pos |-> cs[i].end_pos] : i \in 1..Len(cs)}

\* C13, as claimed: on every grid find_cars emits exactly one Car per
\* 4-connected component of cells with the same marker, with start = (min row,
\* min col) and end = (max row, max col) of the component.
C13_OneCarPerFourConnectedComponent ==
    (last.op = "find_cars")
        => /\ CarExtremes(cars) = {Extremes(S) : S \in Components(board, board_dimension, FALSE)}
           /\ Len(cars) = Cardinality(Components(board, board_dimension, FALSE))

\* C13, amended: find_cars groups cells with the same marker along the
\* marker's axis only: it emits exactly one Car per component of cells linked
\* left-right for 'h' and up-down for 'v', with start = (min row, min col) and
\* end = (max row, max col) of the component.
C13_OneCarPerAxisComponent ==
    (last.op = "find_cars")
        => /\ CarExtremes(cars) = {Extremes(S) : S \in Components(board, board_dimension, TRUE)}
           /\ Len(cars) = Cardinality(Components(board, board_dimension, TRUE))

\* a scanned board with 'h' at (r,c) and (r+1,c): one 4-connected component,
\* scanned as two cars
C13_Witness ==
    /\ last.op = "find_cars"
    /\ \E p \in Cells(board_dimension) :
          /\ p[1] + 1 < board_dimension
          /\ board[p[1]][p[2]] = "h"
          /\ board[p[1] + 1][p[2]] = "h"
          /\ \E i, j \in 1..Len(cars) :
                /\ cars[i].start_pos = p
                /\ cars[j].start_pos = <<p[1] + 1, p[2]>>
    /\ Len(cars) > Cardinality(Components(board, board_dimension, FALSE))

(***************************************************************************)
(* C14.  Immediately after find_cars, on any grid over empty, 'h' and 'v'  *)
(* (well-formed or not), every non-empty cell lies in the span of exactly  *)
(* one Car, and every cell of every Car's span carries that Car's marker.  *)
(***************************************************************************)
C14_ScanPartitionsOccupiedCells ==
    (last.op = "find_cars")
        => /\ \A p \in NonEmptyCells(board, board_dimension) :
                Cardinality({i \in 1..Len(cars) : p \in Span(cars[i])}) = 1
           /\ \A i \in 1..Len(cars) : \A p \in Span(cars[i]) :
                /\ p \in Cells(board_dimension)
                /\ board[p[1]][p[2]] = MarkerOf(cars[i])

\* a scanned grid that is not well-formed: three 'h' cells in an L, or a 'v'
\* directly below the left end of a run of two 'h'
C14_Witness ==
    /\ last.op = "find_cars"
    /\ Len(cars) = 2
    /\ \E p \in Cells(board_dimension) :
          /\ p[1] + 1 < board_dimension
          /\ p[2] + 1 < board_dimension
          /\ board[p[1]][p[2]] = "h"
          /\ board[p[1]][p[2] + 1] = "h"
          /\ board[p[1] + 1][p[2]] # EMPTY

(***************************************************************************)
(* C15.  As claimed: every move preserves the number of cells of each      *)
(* marker, so the counts of 'h' and of 'v' cells always equal those of the *)
(* initial board, and after a refresh the number of cars and the length of *)
(* each car are the initial ones.  Stated in the case most favourable to   *)
(* the claim: an existing car, a fresh Car collection before the move, a   *)
(* move that completes, a refresh right after it.                          *)
(***************************************************************************)
MarkerCount(b, dim, m) == Cardinality({p \in Cells(dim) : b[p[1]][p[2]] = m})

\* how many cars of the collection have length n
CarsOfLength(cs, n) == Cardinality({i \in 1..Len(cs) : cs[i].length = n})

SameCarLengths(cs1, cs2, dim) ==
    /\ Len(cs1) = Len(cs2)
    /\ \A n \in 1..dim : CarsOfLength(cs1, n) = CarsOfLength(cs2, n)

C15_MovesPreserveMarkerCounts ==
    [][(FreshHelperStep /\ outcome' = "ok")
          => /\ \A m \in Markers :
                  MarkerCount(board', board_dimension, m) = MarkerCount(board0, board_dimension, m)
             /\ SameCarLengths(find_cars(board', board_dimension, <<>>),
                               find_cars(board0, board_dimension, <<>>), board_dimension)]_vars

(***************************************************************************)
(* C16.  A completed move of an existing car, made with a fresh Car        *)
(* collection, to destination cells that are inside the board and free,    *)
(* followed by find_cars.  The rescan is find_cars of the board the move   *)
(* leaves.                                                                 *)
(***************************************************************************)
ShiftedCar(car, direction) ==
    Car(<<car.start_pos[1] + Delta(direction)[1], car.start_pos[2] + Delta(direction)[2]>>,
        <<car.end_pos[1] + Delta(direction)[1], car.end_pos[2] + Delta(direction)[2]>>,
        car.orientation)

\* in its new place the car touches no cell of its own marker along its axis
TouchesNoCar(b, car, direction, dim) ==
    Closure(Shifted(b, car, direction, dim), dim, Dest(car, direction), TRUE) = Dest(car, direction)

SuccessfulMoveStep ==
    /\ FreshHelperStep
    /\ outcome' = "ok"
    /\ DestInBounds(cars[last'.car_num], last'.direction, board_dimension)
    /\ DestFree(board, cars[last'.car_num], last'.direction)
    /\ TouchesNoCar(board, cars[last'.car_num], last'.direction, board_dimension)

\* row-major order of cells
Before(p, q) == p[1] < q[1] \/ (p[1] = q[1] /\ p[2] < q[2])

\* C16, as claimed: after a successful move followed by find_cars the car at
\* index k is the car that was at index k (moved footprint, same orientation and
\* length), and every other car keeps its index.  Stated on boards that still
\* hold the cars of the initial board, whole.
C16_CarsKeepIndex ==
    [][(/\ SuccessfulMoveStep
        /\ SameCarLengths(cars, find_cars(board0, board_dimension, <<>>), board_dimension))
          => LET rescanned == find_cars(board', board_dimension, <<>>)
                 k == last'.car_num
             IN /\ Len(rescanned) = Len(cars)
                /\ rescanned[k] = ShiftedCar(cars[k], last'.direction)
                /\ \A i \in 1..Len(cars) : i # k => rescanned[i] = cars[i]]_vars

\* C16, amended: after a successful move followed by find_cars the collection
\* holds the same cars (the moved car with its shifted footprint, same
\* orientation and length, every other car unchanged), listed in row-major
\* order of their start cells; so the moved car's index is one more than the
\* number of other cars whose start cell comes before its new start cell, and
\* it changes when the move takes the car past another car's start cell.
C16_CarsKeptInRowMajorOrder ==
    [][SuccessfulMoveStep
          => LET rescanned == find_cars(board', board_dimension, <<>>)
                 k == last'.car_num
                 moved == ShiftedCar(cars[k], last'.direction)
                 others == {i \in 1..Len(cars) : i # k}
             IN /\ Len(rescanned) = Len(cars)
                /\ CarSet(rescanned) = {cars[i] : i \in others} \cup {moved}
                /\ \A i, j \in 1..Len(rescanned) :
                      i < j => Before(rescanned[i].start_pos, rescanned[j].start_pos)
                /\ rescanned[1 + Cardinality({i \in others :
                                  Before(cars[i].start_pos, moved.start_pos)})] = moved]_vars

\* the rescan after the horizontal car, second on the initial board, was moved
\* up to row 0: it is now the first car and the vertical car the second
C16_Witness ==
    /\ last.op = "find_cars"
    /\ outcome = "ok"
    /\ Len(cars) = 2
    /\ cars[1] = Car(<<0, 3>>, <<0, 4>>, "horizontal")
    /\ cars[2] = Car(<<1, 2>>, <<2, 2>>, "vertical")
    /\ find_cars(board0, board_dimension, <<>>)[2].orientation = "horizontal"

(***************************************************************************)
(* C17.  As claimed: no move request is fatal.  For every car index in     *)
(* range, every direction and every reachable grid the move ends normally, *)
(* reporting success or rejection: it never aborts with an unhandled       *)
(* error, and a move that fails leaves the grid as it was.  Stated for     *)
(* _move_up and _move_down on an existing car with a fresh Car collection. *)
(***************************************************************************)
C17_NoMoveIsFatal ==
    [][FreshHelperStep
          => /\ outcome' = "ok"
             /\ (outcome' # "ok" => board' = board)]_vars

(***************************************************************************)
(* C18.  The goal is reachable from ESTADO_INICIAL: a finite sequence of   *)
(* find_cars, _move_up and _move_down calls leaves 'h' in both (2,3) and   *)
(* (2,4).                                                                  *)
(***************************************************************************)
GoalCells(b) == b[2][3] = "h" /\ b[2][4] = "h"

\* find_cars(); _move_up(2); find_cars(); _move_up(2) on board b completes and
\* ends on a board with the goal cells
SolvedByTwoUps(b, dim) ==
    LET cars1 == find_cars(b, dim, <<>>)
        up1 == move_up(b, cars1, 2)
        cars2 == find_cars(up1.board, dim, cars1)
        up2 == move_up(up1.board, cars2, 2)
    IN /\ up1.outcome = "ok"
       /\ up2.outcome = "ok"
       /\ GoalCells(up2.board)

\* C18: whenever the board is ESTADO_INICIAL, the calls find_cars();
\* _move_up(2); find_cars(); _move_up(2) complete and leave 'h' in (2,3) and
\* (2,4), so the goal is reachable from the initial board.
C18_GoalReachable ==
    (board = ESTADO_INICIAL /\ outcome = "ok") => SolvedByTwoUps(board, board_dimension)

\* the goal cells hold 'h' after two completed moves from ESTADO_INICIAL, the
\* last one _move_up(2) with the horizontal car scanned in row 3
C18_Witness ==
    /\ board0 = ESTADO_INICIAL
    /\ GoalCells(board)
    /\ outcome = "ok"
    /\ moves = 2
    /\ last = Call("up", 2, "up")
    /\ Len(cars) = 2
    /\ cars[2] = Car(<<3, 3>>, <<3, 4>>, "horizontal")

(***************************************************************************)
(* C19.  The round trip _move_up(k); find_cars(); _move_down(k2), where k2 *)
(* is the car that covers the cells car k was moved to.                    *)
(***************************************************************************)
\* the number, after the rescan, of the car whose span holds the cells
CarCovering(cs, cells) == CHOOSE i \in 1..Len(cs) : cells \subseteq Span(cs[i])

RoundTrip(b, cs, car_num, dim) ==
    LET up == move_up(b, cs, car_num)
        rescanned == find_cars(up.board, dim, cs)
        car_num2 == CarCovering(rescanned, Dest(cs[car_num], "up"))
    IN IF up.outcome = "ok" THEN move_down(up.board, rescanned, car_num2) ELSE up

\* a _move_up step on an existing car, with a fresh Car collection, whose cells
\* one row up are inside the board and empty
UpStepToFreeCells ==
    /\ FreshHelperStep
    /\ last'.op = "up"
    /\ DestInBounds(cars[last'.car_num], "up", board_dimension)
    /\ DestFree(board, cars[last'.car_num], "up")

\* C19, as claimed: for any car whose cells just above are in bounds and empty,
\* _move_up, then find_cars, then _move_down on the car that now covers the
\* moved cells restores the grid exactly, whatever other cars are on the board.
C19_UpThenDownRestores ==
    [][UpStepToFreeCells
          => LET back == RoundTrip(board, cars, last'.car_num, board_dimension)
             IN back.outcome = "ok" /\ back.board = board]_vars

\* C19, amended: for any car whose cells just above are in bounds and empty and
\* which, once moved up, touches no cell of its own marker along its axis,
\* _move_up, then find_cars, then _move_down on the car that now covers the
\* moved cells restores the grid exactly.
C19_UpThenDownRestoresUnlessMerged ==
    [][(/\ UpStepToFreeCells
        /\ TouchesNoCar(board, cars[last'.car_num], "up", board_dimension))
          => LET back == RoundTrip(board, cars, last'.car_num, board_dimension)
             IN back.outcome = "ok" /\ back.board = board]_vars

\* the round trip was made on the initial board: a car was moved up, the board
\* rescanned, the car moved down, and the board is the initial one again
C19_Witness ==
    /\ last.op = "down"
    /\ outcome = "ok"
    /\ moves = 2
    /\ board = board0
    /\ last.car_num \in 1..Len(cars)
    /\ \E j \in 1..Len(find_cars(board0, board_dimension, <<>>)) :
          LET car == find_cars(board0, board_dimension, <<>>)[j]
          IN /\ cars[last.car_num] = ShiftedCar(car, "up")
             /\ cars = find_cars(Shifted(board0, car, "up", board_dimension),
                                 board_dimension, <<>>)

(***************************************************************************)
(* C20.  With a stale Car collection a repeated move is idempotent:        *)
(* _move_up, or a _move_down that completes, called a second time on the   *)
(* same car_num with no find_cars in between leaves the grid exactly as    *)
(* the first call left it.                                                 *)
(***************************************************************************)
C20_RepeatedMoveIdempotent ==
    [][(/\ last.op \in {"up", "down"}
        /\ last' = last
        /\ outcome' = "ok")
          => board' = board]_vars

\* the same helper call was made twice in a row on an existing car, and the
\* board is not the initial one
C20_Witness ==
    /\ again
    /\ last.op \in {"up", "down"}
    /\ outcome = "ok"
    /\ last.car_num \in 1..Len(cars)
    /\ board # board0
    /\ ~Fresh

====
